---- MODULE Spec2Model ----
(***************************************************************************)
(* Heat-transfer simulation of src/heat.cu: main() seeds a constant-source *)
(* mask and an input grid, and the animation harness then calls anim_gpu   *)
(* once per frame.  anim_gpu launches, per substep, copy_const_kernel and  *)
(* blend_kernel on the default CUDA stream and swaps the two grid          *)
(* pointers on the host; after the loop it launches float_to_color and     *)
(* copies the pixels back to the host.                                     *)
(*                                                                         *)
(* Temperatures are exact fixed-point numbers: the float value v is the    *)
(* integer v * MAX_TEMP (MAX_TEMP stands for 1.0f).  SPEED is the fraction  *)
(* SPEED_NUM / SPEED_DEN.  Every division by SPEED_DEN that the model      *)
(* performs is recorded in the variable inexact when it has a remainder,   *)
(* so that a run with inexact = FALSE is a run in exact arithmetic.        *)
(*                                                                         *)
(* The grid dimension (the macro DIM, 1024 in the source) is the variable  *)
(* dim: each specification fixes it in its initial state to a scaled-down  *)
(* value, and main()'s seeding coordinates are scaled by DIM \div dim.     *)
(***************************************************************************)
EXTENDS Integers, Sequences, FiniteSets, TLC

VARIABLES
    dim,            \* the grid dimension of the build (macro DIM)
    allocd,         \* device buffers currently allocated (cudaMalloc / cudaFree)
    failed,         \* the DataBlock fields whose cudaMalloc failed
    mem,            \* device memory: buffer -> flat row-major grid
    d,              \* DataBlock: dev_inSrc, dev_outSrc, dev_constSrc, output_bitmap, frames
    pixels,         \* contents of the device pixel buffer (output_bitmap)
    bitmap,         \* contents of the host bitmap (bitmap->get_ptr())
    temp,           \* main()'s host staging array
    pc,             \* position of the host thread
    i,              \* loop counter (main's i, anim_gpu's i)
    yx,             \* main()'s nested loop counters <<y, x>>
    stream,         \* kernels launched and not yet completed, in launch order
    ran,            \* kernels completed on the device during the current frame
    xfers,          \* device-to-host copies made during the current frame
    fault,          \* TRUE once a kernel touched an unallocated address (sticky error)
    inexact,        \* TRUE once a division by SPEED_DEN had a remainder
    before          \* contents of the two arguments of the latest kernel when it started

vars == <<dim, allocd, failed, mem, d, pixels, bitmap, temp, pc, i, yx,
          stream, ran, xfers, fault, inexact, before>>

---------------------------------------------------------------------------
(* Bounds of the model *)

\* substeps per frame (the literal 90 of anim_gpu's loop, scaled down)
Substeps == 2

\* frames the harness requests before it stops asking
MaxFrames == 1

\* grid dimension of the specifications that interleave single threads
ThreadDim == 2

\* largest grid dimension of the specifications that run whole kernels
KernelDim == 4

\* grid dimension of the specification of main()'s seeding
SeedDim == 16

---------------------------------------------------------------------------
(* Program constants *)

DIM == 1024

SPEED_NUM == 1

SPEED_DEN == 4

\* one unit of the fixed-point representation, chosen so that Substeps *
\* MaxFrames successive divisions by SPEED_DEN of a seed value are exact
MIN_TEMP == 2 * SPEED_DEN ^ (Substeps * MaxFrames)

MAX_TEMP == 10000 * MIN_TEMP

\* dim3 threads(16,16), scaled down with the grid so that it divides dim
ThreadsPerBlock == 1

\* dim3 blocks(DIM/16,DIM/16)
Blocks == dim \div ThreadsPerBlock

\* blockDim.x * gridDim.x
Width == ThreadsPerBlock * Blocks

\* ratio between the source's coordinates and the scaled grid's
Zoom == DIM \div dim

---------------------------------------------------------------------------
(* Device buffers and grids *)

GridBufs == {"buf_in", "buf_out", "buf_const"}

Bufs == GridBufs \cup {"buf_bitmap"}

Invalid == "invalid"

Cells == 0 .. (dim * dim - 1)

\* the threads of one launch <<<blocks,threads>>>, by pixel position <<x, y>>
Threads == (0 .. (Width - 1)) \X (0 .. (Width - 1))

\* int offset = x + y * blockDim.x * gridDim.x;
Offset(t) == t[1] + t[2] * Width

ZeroGrid == [c \in Cells |-> 0]

---------------------------------------------------------------------------
(* The kernels, one thread at a time *)

\* the neighbour offsets blend_kernel computes for the thread at <<x, y>>
left_wrap(t) == IF t[1] = 0 THEN Offset(t) + dim - 1 ELSE Offset(t) - 1

left(t) == IF t[1] = 0 THEN (Offset(t) - 1) + 1 ELSE Offset(t) - 1

right(t) == IF t[1] = dim - 1 THEN (Offset(t) + 1) - 1 ELSE Offset(t) + 1

top(t) == IF t[2] = 0 THEN (Offset(t) - dim) + dim ELSE Offset(t) - dim

bottom(t) == IF t[2] = dim - 1 THEN (Offset(t) + dim) - dim ELSE Offset(t) + dim

Laplace_no4(inSrc, t) ==
    inSrc[top(t)] + inSrc[bottom(t)] + inSrc[left(t)] + inSrc[right(t)]
        - inSrc[Offset(t)]

\* inSrc[top] + inSrc[bottom] + inSrc[left] + inSrc[right] - inSrc[offset]*4
Laplace(inSrc, t) ==
    inSrc[top(t)] + inSrc[bottom(t)] + inSrc[left(t)] + inSrc[right(t)]
        - inSrc[Offset(t)] * 4

\* the value one thread of blend_kernel stores into outSrc[offset]
BlendCell(inSrc, t) ==
    inSrc[Offset(t)] + (SPEED_NUM * Laplace(inSrc, t)) \div SPEED_DEN

\* whether that thread's multiplication by SPEED is exact
BlendExact(inSrc, t) == (SPEED_NUM * Laplace(inSrc, t)) % SPEED_DEN = 0

\* the cells one thread of blend_kernel reads from inSrc
BlendReads(t) == {Offset(t), top(t), bottom(t), left(t), right(t)}

CopyConstCell_always(iptr, cptr, t) == cptr[Offset(t)]

\* the value one thread of copy_const_kernel leaves in iptr[offset]
CopyConstCell(iptr, cptr, t) ==
    IF cptr[Offset(t)] # 0 THEN cptr[Offset(t)] ELSE iptr[Offset(t)]

\* blend_kernel as a function of its input grid (every thread has run)
blend_kernel(inSrc) ==
    [c \in Cells |-> BlendCell(inSrc, CHOOSE t \in Threads : Offset(t) = c)]

\* copy_const_kernel as a function of the working grid and the mask
copy_const_kernel(iptr, cptr) ==
    [c \in Cells |-> CopyConstCell(iptr, cptr, CHOOSE t \in Threads : Offset(t) = c)]

\* float_to_color: one pixel per cell, quantised to a byte
Color(v) ==
    IF v <= 0 THEN 0
    ELSE IF v >= MAX_TEMP THEN 255
    ELSE v \div (MAX_TEMP \div 256)

float_to_color(inSrc) == [c \in Cells |-> Color(inSrc[c])]

\* a launch  kernel<<<blocks,threads>>>( a, b )  on the default stream
DefaultStream == 0

Launch_own_stream(kernel, a, b) ==
    [kernel |-> kernel, a |-> a, b |-> b, sub |-> i, strm |-> Len(stream) + 1,
     done |-> {}]

Launch(kernel, a, b) ==
    [kernel |-> kernel, a |-> a, b |-> b, sub |-> i, strm |-> DefaultStream,
     done |-> {}]

\* kernels of one CUDA stream run in launch order: the n-th launched kernel
\* may run once no earlier launch of its stream is still pending
Runnable(n) ==
    /\ n \in 1 .. Len(stream)
    /\ \A m \in 1 .. (n - 1) : stream[m].strm # stream[n].strm

RemoveAt(s, n) == [m \in 1 .. (Len(s) - 1) |-> IF m < n THEN s[m] ELSE s[m + 1]]

\* the stream after thread t of its n-th kernel has run
AfterThread(n, t) ==
    IF stream[n].done \cup {t} = Threads
    THEN RemoveAt(stream, n)
    ELSE [stream EXCEPT ![n].done = @ \cup {t}]

Completed(n, t) ==
    IF stream[n].done \cup {t} = Threads
    THEN Append(ran, [kernel |-> stream[n].kernel, a |-> stream[n].a,
                      b |-> stream[n].b, sub |-> stream[n].sub])
    ELSE ran

\* the arguments' contents, taken when the first thread of the kernel runs
Snapshot(n) ==
    IF stream[n].done = {}
    THEN [a |-> IF stream[n].a \in GridBufs THEN mem[stream[n].a] ELSE <<>>,
          b |-> IF stream[n].b \in GridBufs THEN mem[stream[n].b] ELSE <<>>]
    ELSE before

\* a kernel that touches an unallocated address is aborted, and the error sticks
Abort(n) ==
    /\ stream' = RemoveAt(stream, n)
    /\ fault' = TRUE
    /\ UNCHANGED <<mem, pixels, ran, inexact, before>>

\* one thread of copy_const_kernel( iptr = a, cptr = b )
CopyConstThread(n, t) ==
    /\ Runnable(n)
    /\ stream[n].kernel = "copy_const_kernel"
    /\ t \in Threads \ stream[n].done
    /\ LET iptr == stream[n].a
           cptr == stream[n].b
       IN  IF fault \/ cptr \notin allocd
              \/ (mem[cptr][Offset(t)] # 0 /\ iptr \notin allocd)
           THEN Abort(n)
           ELSE /\ mem' = IF mem[cptr][Offset(t)] # 0
                          THEN [mem EXCEPT ![iptr][Offset(t)] =
                                               CopyConstCell(mem[iptr], mem[cptr], t)]
                          ELSE mem
                /\ stream' = AfterThread(n, t)
                /\ ran' = Completed(n, t)
                /\ before' = Snapshot(n)
                /\ UNCHANGED <<pixels, fault, inexact>>
    /\ UNCHANGED <<dim, allocd, failed, d, bitmap, temp, pc, i, yx, xfers>>

\* one thread of blend_kernel( outSrc = a, inSrc = b )
BlendThread(n, t) ==
    /\ Runnable(n)
    /\ stream[n].kernel = "blend_kernel"
    /\ t \in Threads \ stream[n].done
    /\ LET outSrc == stream[n].a
           inSrc == stream[n].b
       IN  IF fault \/ inSrc \notin allocd \/ outSrc \notin allocd
           THEN Abort(n)
           ELSE /\ mem' = [mem EXCEPT ![outSrc][Offset(t)] = BlendCell(mem[inSrc], t)]
                /\ inexact' = (inexact \/ ~BlendExact(mem[inSrc], t))
                /\ stream' = AfterThread(n, t)
                /\ ran' = Completed(n, t)
                /\ before' = Snapshot(n)
                /\ UNCHANGED <<pixels, fault>>
    /\ UNCHANGED <<dim, allocd, failed, d, bitmap, temp, pc, i, yx, xfers>>

\* float_to_color( optr = a, inSrc = b ), all its threads at once
ColorKernel(n) ==
    /\ Runnable(n)
    /\ stream[n].kernel = "float_to_color"
    /\ LET optr == stream[n].a
           inSrc == stream[n].b
       IN  IF fault \/ optr \notin allocd \/ inSrc \notin allocd
           THEN Abort(n)
           ELSE /\ IF optr = "buf_bitmap"
                   THEN /\ pixels' = float_to_color(mem[inSrc])
                        /\ UNCHANGED mem
                   ELSE /\ mem' = [mem EXCEPT ![optr] = float_to_color(mem[inSrc])]
                        /\ UNCHANGED pixels
                /\ stream' = RemoveAt(stream, n)
                /\ ran' = Append(ran, [kernel |-> stream[n].kernel, a |-> optr,
                                       b |-> inSrc, sub |-> stream[n].sub])
                /\ UNCHANGED <<fault, inexact, before>>
    /\ UNCHANGED <<dim, allocd, failed, d, bitmap, temp, pc, i, yx, xfers>>

\* a whole kernel at once: what its threads leave when nothing else runs
\* between them
KernelStep(n) ==
    /\ Runnable(n)
    /\ stream[n].kernel \in {"copy_const_kernel", "blend_kernel"}
    /\ stream[n].done = {}
    /\ LET a == stream[n].a
           b == stream[n].b
       IN  IF fault \/ a \notin allocd \/ b \notin allocd
           THEN Abort(n)
           ELSE /\ mem' = IF stream[n].kernel = "blend_kernel"
                          THEN [mem EXCEPT ![a] = blend_kernel(mem[b])]
                          ELSE [mem EXCEPT ![a] = copy_const_kernel(mem[a], mem[b])]
                /\ inexact' = (inexact \/ (/\ stream[n].kernel = "blend_kernel"
                                           /\ \E t \in Threads : ~BlendExact(mem[b], t)))
                /\ stream' = RemoveAt(stream, n)
                /\ ran' = Append(ran, [kernel |-> stream[n].kernel, a |-> a,
                                       b |-> b, sub |-> stream[n].sub])
                /\ before' = Snapshot(n)
                /\ UNCHANGED <<pixels, fault>>
    /\ UNCHANGED <<dim, allocd, failed, d, bitmap, temp, pc, i, yx, xfers>>

---------------------------------------------------------------------------
(* anim_gpu and anim_exit, on the host *)

\* the harness calls anim_gpu for the next frame
FrameRequest ==
    /\ pc = "idle"
    /\ d.frames < MaxFrames
    /\ pc' = "launch_copy"
    /\ i' = 0
    /\ ran' = <<>>
    /\ xfers' = 0
    /\ UNCHANGED <<dim, allocd, failed, mem, d, pixels, bitmap, temp, yx, stream,
                   fault, inexact, before>>

LaunchCopyConst_out ==
    /\ pc = "launch_copy"
    /\ stream' = Append(stream, Launch("copy_const_kernel", d.dev_outSrc, d.dev_constSrc))
    /\ pc' = "launch_blend"
    /\ UNCHANGED <<dim, allocd, failed, mem, d, pixels, bitmap, temp, i, yx, ran,
                   xfers, fault, inexact, before>>

\* copy_const_kernel<<<blocks,threads>>>( d->dev_inSrc, d->dev_constSrc );
LaunchCopyConst ==
    /\ pc = "launch_copy"
    /\ stream' = Append(stream, Launch("copy_const_kernel", d.dev_inSrc, d.dev_constSrc))
    /\ pc' = "launch_blend"
    /\ UNCHANGED <<dim, allocd, failed, mem, d, pixels, bitmap, temp, i, yx, ran,
                   xfers, fault, inexact, before>>

LaunchBlend_reversed ==
    /\ pc = "launch_blend"
    /\ stream' = Append(stream, Launch("blend_kernel", d.dev_inSrc, d.dev_outSrc))
    /\ pc' = "swap"
    /\ UNCHANGED <<dim, allocd, failed, mem, d, pixels, bitmap, temp, i, yx, ran,
                   xfers, fault, inexact, before>>

\* blend_kernel<<<blocks,threads>>>( d->dev_outSrc, d->dev_inSrc );
LaunchBlend ==
    /\ pc = "launch_blend"
    /\ stream' = Append(stream, Launch("blend_kernel", d.dev_outSrc, d.dev_inSrc))
    /\ pc' = "swap"
    /\ UNCHANGED <<dim, allocd, failed, mem, d, pixels, bitmap, temp, i, yx, ran,
                   xfers, fault, inexact, before>>

Swap_assign ==
    /\ pc = "swap"
    /\ d' = [d EXCEPT !.dev_inSrc = d.dev_outSrc]
    /\ i' = i + 1
    /\ pc' = IF i + 1 < Substeps THEN "launch_copy" ELSE "launch_color"
    /\ UNCHANGED <<dim, allocd, failed, mem, pixels, bitmap, temp, yx, stream, ran,
                   xfers, fault, inexact, before>>

\* swap( d->dev_inSrc, d->dev_outSrc ); i++; i<90
Swap ==
    /\ pc = "swap"
    /\ d' = [d EXCEPT !.dev_inSrc = d.dev_outSrc, !.dev_outSrc = d.dev_inSrc]
    /\ i' = i + 1
    /\ pc' = IF i + 1 < Substeps THEN "launch_copy" ELSE "launch_color"
    /\ UNCHANGED <<dim, allocd, failed, mem, pixels, bitmap, temp, yx, stream, ran,
                   xfers, fault, inexact, before>>

\* float_to_color<<<blocks,threads>>>( d->output_bitmap, d->dev_inSrc );
LaunchColor ==
    /\ pc = "launch_color"
    /\ stream' = Append(stream, Launch("float_to_color", d.output_bitmap, d.dev_inSrc))
    /\ pc' = "memcpy"
    /\ UNCHANGED <<dim, allocd, failed, mem, d, pixels, bitmap, temp, i, yx, ran,
                   xfers, fault, inexact, before>>

MemcpyToHost_nowait ==
    /\ pc = "memcpy"
    /\ bitmap' = pixels
    /\ xfers' = xfers + 1
    /\ pc' = "sync"
    /\ UNCHANGED <<dim, allocd, failed, mem, d, pixels, temp, i, yx, stream, ran,
                   fault, inexact, before>>

\* cudaMemcpy( bitmap->get_ptr(), d->output_bitmap, ..., cudaMemcpyDeviceToHost ):
\* waits for the kernels launched before it, then copies
MemcpyToHost ==
    /\ pc = "memcpy"
    /\ stream = <<>>
    /\ IF fault \/ d.output_bitmap \notin allocd
       THEN UNCHANGED <<bitmap, xfers>>
       ELSE /\ bitmap' = IF d.output_bitmap = "buf_bitmap" THEN pixels
                          ELSE mem[d.output_bitmap]
            /\ xfers' = xfers + 1
    /\ pc' = "sync"
    /\ UNCHANGED <<dim, allocd, failed, mem, d, pixels, temp, i, yx, stream, ran,
                   fault, inexact, before>>

\* cudaEventRecord( d->stop ); cudaEventSynchronize( d->stop ); ++d->frames;
FinishFrame ==
    /\ pc = "sync"
    /\ stream = <<>>
    /\ d' = [d EXCEPT !.frames = @ + 1]
    /\ pc' = "idle"
    /\ UNCHANGED <<dim, allocd, failed, mem, pixels, bitmap, temp, i, yx, stream, ran,
                   xfers, fault, inexact, before>>

\* anim_exit: cudaFree of the three grids
anim_exit ==
    /\ pc = "idle"
    /\ allocd' = allocd \ {d.dev_inSrc, d.dev_outSrc, d.dev_constSrc}
    /\ pc' = "exited"
    /\ UNCHANGED <<dim, failed, mem, d, pixels, bitmap, temp, i, yx, stream, ran,
                   xfers, fault, inexact, before>>

anim_gpu ==
    \/ LaunchCopyConst
    \/ LaunchBlend
    \/ Swap
    \/ LaunchColor
    \/ MemcpyToHost
    \/ FinishFrame

---------------------------------------------------------------------------
(* The state main() hands to the harness, for given grid contents *)

\* a grid that is zero except for value v at cell a and value w at cell b
Sparse(a, v, b, w) == [c \in Cells |-> IF c = a THEN v ELSE IF c = b THEN w ELSE 0]

\* contents of device memory that was never written
JunkGrids == {[c \in Cells |-> v] : v \in {0, -7}}

NoPixels == [c \in Cells |-> -1]

Ready(inGrid, maskGrid, junk) ==
    /\ allocd = Bufs
    /\ failed = {}
    /\ mem = [b \in GridBufs |-> IF b = "buf_in" THEN inGrid
                                 ELSE IF b = "buf_const" THEN maskGrid ELSE junk]
    /\ d = [dev_inSrc |-> "buf_in", dev_outSrc |-> "buf_out",
            dev_constSrc |-> "buf_const", output_bitmap |-> "buf_bitmap", frames |-> 0]
    /\ pixels = NoPixels
    /\ bitmap = NoPixels
    /\ temp = inGrid
    /\ pc = "idle"
    /\ i = 0
    /\ yx = <<0, 0>>
    /\ stream = <<>>
    /\ ran = <<>>
    /\ xfers = 0
    /\ fault = FALSE
    /\ inexact = FALSE
    /\ before = [a |-> junk, b |-> junk]

\* the driver with its kernels interleaved thread by thread
Init ==
    /\ dim = ThreadDim
    /\ \E inGrid \in {Sparse(0, MIN_TEMP, dim * dim - 1, MAX_TEMP)},
          maskGrid \in {ZeroGrid, Sparse(0, MAX_TEMP, 0, 0)},
          junk \in JunkGrids :
            Ready(inGrid, maskGrid, junk)

Device ==
    \E n \in 1 .. Len(stream) :
        \/ \E t \in Threads : CopyConstThread(n, t)
        \/ \E t \in Threads : BlendThread(n, t)
        \/ ColorKernel(n)

Next ==
    \/ FrameRequest
    \/ anim_gpu
    \/ anim_exit
    \/ Device

Spec == Init /\ [][Next]_vars

---------------------------------------------------------------------------
(* main(): allocation and seeding *)

\* a coordinate of the source, on the scaled grid
S(c) == c \div Zoom

\* the DataBlock field each cudaMalloc of main() fills, and the buffer it gets
MallocField ==
    [malloc_bitmap |-> "output_bitmap", malloc_in |-> "dev_inSrc",
     malloc_out |-> "dev_outSrc", malloc_const |-> "dev_constSrc"]

MallocBuf ==
    [malloc_bitmap |-> "buf_bitmap", malloc_in |-> "buf_in",
     malloc_out |-> "buf_out", malloc_const |-> "buf_const"]

AfterMalloc ==
    [malloc_bitmap |-> "malloc_in", malloc_in |-> "malloc_out",
     malloc_out |-> "malloc_const", malloc_const |-> "seed_mask"]

\* cudaMalloc( (void**)&data.<field>, imageSize ) returns cudaSuccess
cudaMallocOK ==
    /\ pc \in DOMAIN MallocField
    /\ allocd' = allocd \cup {MallocBuf[pc]}
    /\ d' = [d EXCEPT ![MallocField[pc]] = MallocBuf[pc]]
    /\ pc' = AfterMalloc[pc]
    /\ UNCHANGED <<dim, failed, mem, pixels, bitmap, temp, i, yx, stream, ran,
                   xfers, fault, inexact, before>>

\* cudaMalloc returns an error: the field keeps its uninitialized value, and
\* main() goes on, since it does not look at the return value
cudaMallocFails ==
    /\ pc \in DOMAIN MallocField
    /\ failed' = failed \cup {MallocField[pc]}
    /\ pc' = AfterMalloc[pc]
    /\ UNCHANGED <<dim, allocd, mem, d, pixels, bitmap, temp, i, yx, stream, ran,
                   xfers, fault, inexact, before>>

\* the body of  for (int i=0; i<DIM*DIM; i++)
InHotMask(x, y) == (x > S(300)) /\ (x < S(600)) /\ (y > S(310)) /\ (y < S(601))

SeedMaskCell ==
    /\ pc = "seed_mask"
    /\ i < dim * dim
    /\ temp' = [temp EXCEPT ![i] = IF InHotMask(i % dim, i \div dim) THEN MAX_TEMP ELSE 0]
    /\ i' = i + 1
    /\ pc' = IF i + 1 < dim * dim THEN "seed_mask" ELSE "seed_points"
    /\ UNCHANGED <<dim, allocd, failed, mem, d, pixels, bitmap, yx, stream, ran,
                   xfers, fault, inexact, before>>

\* temp[DIM*100+100] = (MAX_TEMP + MIN_TEMP)/2;  and the three MIN_TEMP points
SeedPoints ==
    /\ pc = "seed_points"
    /\ LET t1 == [temp EXCEPT ![dim * S(100) + S(100)] = (MAX_TEMP + MIN_TEMP) \div 2]
           t2 == [t1 EXCEPT ![dim * S(700) + S(100)] = MIN_TEMP]
           t3 == [t2 EXCEPT ![dim * S(300) + S(300)] = MIN_TEMP]
           t4 == [t3 EXCEPT ![dim * S(200) + S(700)] = MIN_TEMP]
       IN  temp' = t4
    /\ yx' = <<S(800), S(400)>>
    /\ pc' = "seed_cold"
    /\ UNCHANGED <<dim, allocd, failed, mem, d, pixels, bitmap, i, stream, ran,
                   xfers, fault, inexact, before>>

\* for (int y=800; y<900; y++) for (int x=400; x<500; x++) temp[x+y*DIM] = MIN_TEMP;
SeedColdBlock ==
    /\ pc = "seed_cold"
    /\ IF yx[1] >= S(900)
       THEN /\ pc' = "copy_const"
            /\ UNCHANGED <<temp, yx>>
       ELSE IF yx[2] >= S(500)
       THEN /\ yx' = <<yx[1] + 1, S(400)>>
            /\ UNCHANGED <<temp, pc>>
       ELSE /\ temp' = [temp EXCEPT ![yx[2] + yx[1] * dim] = MIN_TEMP]
            /\ yx' = <<yx[1], yx[2] + 1>>
            /\ UNCHANGED pc
    /\ UNCHANGED <<dim, allocd, failed, mem, d, pixels, bitmap, i, stream, ran,
                   xfers, fault, inexact, before>>

\* cudaMemcpy( dst, temp, imageSize, cudaMemcpyHostToDevice )
MemcpyToDevice(dst) ==
    IF dst \in allocd /\ dst \in GridBufs
    THEN mem' = [mem EXCEPT ![dst] = temp]
    ELSE UNCHANGED mem

CopyConst_reset ==
    /\ pc = "copy_const"
    /\ MemcpyToDevice(d.dev_constSrc)
    /\ temp' = ZeroGrid
    /\ yx' = <<S(800), 0>>
    /\ pc' = "seed_hot"
    /\ UNCHANGED <<dim, allocd, failed, d, pixels, bitmap, i, stream, ran,
                   xfers, fault, inexact, before>>

CopyConst ==
    /\ pc = "copy_const"
    /\ MemcpyToDevice(d.dev_constSrc)
    /\ yx' = <<S(800), 0>>
    /\ pc' = "seed_hot"
    /\ UNCHANGED <<dim, allocd, failed, d, pixels, bitmap, temp, i, stream, ran,
                   xfers, fault, inexact, before>>

\* for (int y=800; y<DIM; y++) for (int x=0; x<200; x++) temp[x+y*DIM] = MAX_TEMP;
SeedHotBlock ==
    /\ pc = "seed_hot"
    /\ IF yx[1] >= dim
       THEN /\ pc' = "copy_in"
            /\ UNCHANGED <<temp, yx>>
       ELSE IF yx[2] >= S(200)
       THEN /\ yx' = <<yx[1] + 1, 0>>
            /\ UNCHANGED <<temp, pc>>
       ELSE /\ temp' = [temp EXCEPT ![yx[2] + yx[1] * dim] = MAX_TEMP]
            /\ yx' = <<yx[1], yx[2] + 1>>
            /\ UNCHANGED pc
    /\ UNCHANGED <<dim, allocd, failed, mem, d, pixels, bitmap, i, stream, ran,
                   xfers, fault, inexact, before>>

\* cudaMemcpy( data.dev_inSrc, temp, ... ); free( temp ); bitmap.anim_and_exit(...)
CopyIn ==
    /\ pc = "copy_in"
    /\ MemcpyToDevice(d.dev_inSrc)
    /\ pc' = "idle"
    /\ UNCHANGED <<dim, allocd, failed, d, pixels, bitmap, temp, i, yx, stream, ran,
                   xfers, fault, inexact, before>>

seed ==
    \/ SeedMaskCell
    \/ SeedPoints
    \/ SeedColdBlock
    \/ CopyConst
    \/ SeedHotBlock
    \/ CopyIn

\* main() on entry: nothing allocated, the DataBlock's pointers uninitialized
\* (garbage gives each its value), device and host memory never written
Entry(garbage, junk) ==
    /\ allocd = {}
    /\ failed = {}
    /\ mem = [b \in GridBufs |-> junk]
    /\ d = [dev_inSrc |-> garbage.dev_inSrc, dev_outSrc |-> garbage.dev_outSrc,
            dev_constSrc |-> garbage.dev_constSrc,
            output_bitmap |-> garbage.output_bitmap, frames |-> 0]
    /\ pixels = NoPixels
    /\ bitmap = NoPixels
    /\ temp = junk
    /\ pc = "malloc_bitmap"
    /\ i = 0
    /\ yx = <<0, 0>>
    /\ stream = <<>>
    /\ ran = <<>>
    /\ xfers = 0
    /\ fault = FALSE
    /\ inexact = FALSE
    /\ before = [a |-> junk, b |-> junk]

NoGarbage ==
    [dev_inSrc |-> Invalid, dev_outSrc |-> Invalid, dev_constSrc |-> Invalid,
     output_bitmap |-> Invalid]

\* main() up to the call of the harness, every allocation succeeding
InitSeed ==
    /\ dim = SeedDim
    /\ \E junk \in JunkGrids : Entry(NoGarbage, junk)

NextSeed ==
    \/ cudaMallocOK
    \/ seed

SpecSeed == InitSeed /\ [][NextSeed]_vars

\* the whole program, each cudaMalloc free to fail
InitAlloc ==
    /\ dim = ThreadDim
    /\ \E garbage \in [{"dev_inSrc", "dev_outSrc", "dev_constSrc", "output_bitmap"}
                         -> {Invalid, "buf_in", "buf_out"}],
          junk \in JunkGrids :
            Entry(garbage, junk)

NextAlloc ==
    \/ cudaMallocOK
    \/ cudaMallocFails
    \/ seed
    \/ FrameRequest
    \/ anim_gpu
    \/ anim_exit
    \/ Device

SpecAlloc == InitAlloc /\ [][NextAlloc]_vars

\* the driver with each kernel run as a whole, on larger grids
InitKernel ==
    /\ dim \in 2 .. KernelDim
    /\ \E a \in Cells, v \in {0, MAX_TEMP}, w \in {0, MIN_TEMP, -MAX_TEMP},
          m \in {0, dim + 1, dim * dim - 1}, p \in {0, MAX_TEMP, MIN_TEMP},
          junk \in JunkGrids :
            Ready(Sparse(a, v, dim * dim - 1, w), Sparse(m, p, m, p), junk)

DeviceKernel ==
    \E n \in 1 .. Len(stream) :
        \/ KernelStep(n)
        \/ ColorKernel(n)

NextKernel ==
    \/ FrameRequest
    \/ anim_gpu
    \/ anim_exit
    \/ DeviceKernel

SpecKernel == InitKernel /\ [][NextKernel]_vars

---------------------------------------------------------------------------
(* Properties *)

\* the kernel that completed last in the current frame
LastRan == ran[Len(ran)]

\* the value of grid g at (x, y), or at (cx, cy) when (x, y) is off the grid
At(g, x, y, cx, cy) ==
    IF x \in 0 .. (dim - 1) /\ y \in 0 .. (dim - 1)
    THEN g[x + y * dim]
    ELSE g[cx + cy * dim]

\* N + S + W + E of cell c of grid g, an off-grid neighbour replaced by c itself
NeighbourSum(g, c) ==
    LET x == c % dim
        y == c \div dim
    IN  At(g, x, y - 1, x, y) + At(g, x, y + 1, x, y)
            + At(g, x - 1, y, x, y) + At(g, x + 1, y, x, y)

\* input[x,y] + SPEED * (N + S + W + E - 4 * input[x,y]) at every cell
Diffused(g) ==
    [c \in Cells |->
        g[c] + (SPEED_NUM * (NeighbourSum(g, c) - 4 * g[c])) \div SPEED_DEN]

\* C1: when blend_kernel has run, every cell of its output is the input cell
\* plus SPEED * (N+S+W+E - 4*input), an off-grid neighbour being the cell
\* itself, and the input grid still holds what it held when the kernel began.
C1_DiffusionStep ==
    (ran # <<>> /\ LastRan.kernel = "blend_kernel") =>
        /\ mem[LastRan.a] = Diffused(before.b)
        /\ mem[LastRan.b] = before.b

\* a 3x3 grid whose hot corner lost half its heat and gave a quarter to each
\* of its two in-grid neighbours, while the centre cell stayed cold
C1_Witness ==
    /\ dim = 3
    /\ ran # <<>>
    /\ LastRan.kernel = "blend_kernel"
    /\ before.b = Sparse(0, MAX_TEMP, 0, 0)
    /\ mem[LastRan.a] = [c \in Cells |-> IF c = 0 THEN MAX_TEMP \div 2
                                          ELSE IF c \in {1, 3} THEN MAX_TEMP \div 4
                                          ELSE 0]

\* C4: when copy_const_kernel has run, every cell whose mask value is not 0
\* holds the mask value, every other cell holds what it held before, the mask
\* is what it was, and running the kernel again would change nothing.
C4_SourceClampStep ==
    (ran # <<>> /\ LastRan.kernel = "copy_const_kernel") =>
        /\ \A c \in Cells :
              mem[LastRan.a][c] = IF before.b[c] # 0 THEN before.b[c] ELSE before.a[c]
        /\ mem[LastRan.b] = before.b
        /\ copy_const_kernel(mem[LastRan.a], mem[LastRan.b]) = mem[LastRan.a]

\* a clamp that overwrote a pinned cell holding another value and kept a
\* nonzero cell that is not pinned
C4_Witness ==
    /\ ran # <<>>
    /\ LastRan.kernel = "copy_const_kernel"
    /\ \E c \in Cells : before.b[c] # 0 /\ before.a[c] # before.b[c]
                        /\ mem[LastRan.a][c] = before.b[c]
    /\ \E c \in Cells : before.b[c] = 0 /\ before.a[c] # 0

\* the 4x4 example: mask zero except (0,0) = 1.0, initial grid zero, and the
\* first substep of the first frame has run on the device
C2_AfterOneSubstep ==
    /\ dim = 4
    /\ temp = ZeroGrid
    /\ mem["buf_const"] = Sparse(0, MAX_TEMP, 0, 0)
    /\ d.frames = 0
    /\ Len(ran) = 2

\* C2 as claimed: after one substep cell (0,0) is 1.0, cells (1,0) and (0,1)
\* are 0.25 and every other cell is 0.
C2_ExampleAsClaimed ==
    C2_AfterOneSubstep =>
        mem[ran[2].a] = [c \in Cells |-> IF c = 0 THEN MAX_TEMP
                                         ELSE IF c \in {1, 4} THEN MAX_TEMP \div 4
                                         ELSE 0]

\* C2 amended: after one substep cell (0,0) is 0.5 (it was clamped to 1.0 and
\* then diffused), cells (1,0) and (0,1) are 0.25 and every other cell is 0.
C2_Example ==
    C2_AfterOneSubstep =>
        /\ before.b = Sparse(0, MAX_TEMP, 0, 0)
        /\ mem[ran[2].a] = [c \in Cells |-> IF c = 0 THEN MAX_TEMP \div 2
                                            ELSE IF c \in {1, 4} THEN MAX_TEMP \div 4
                                            ELSE 0]

\* the example's substep is complete: clamp and diffusion have run and the
\* host has swapped, so that the diffused grid is the current one
C2_Witness ==
    /\ C2_AfterOneSubstep
    /\ i = 1
    /\ pc = "launch_copy"
    /\ stream = <<>>
    /\ d.dev_inSrc = ran[2].a

\* C8: with an all-zero initial grid and an all-zero mask, whenever the device
\* has finished what was launched, the current grid is all zero, and so is
\* every frame handed to the host.
C8_AtRest ==
    (temp = ZeroGrid /\ mem["buf_const"] = ZeroGrid) =>
        /\ stream = <<>> => mem[d.dev_inSrc] = ZeroGrid
        /\ bitmap \in {NoPixels, ZeroGrid}

\* a substep has run from rest into a buffer that held junk, and that buffer
\* is now the current grid
C8_Witness ==
    /\ temp = ZeroGrid
    /\ mem["buf_const"] = ZeroGrid
    /\ stream = <<>>
    /\ ran # <<>>
    /\ LastRan.kernel = "blend_kernel"
    /\ before.a # ZeroGrid
    /\ d.dev_inSrc = LastRan.a
    /\ mem[d.dev_inSrc] = ZeroGrid

Min(set) == CHOOSE v \in set : \A w \in set : v <= w

Max(set) == CHOOSE v \in set : \A w \in set : v >= w

\* the initial grid values and the nonzero mask values
SeedValues ==
    {temp[c] : c \in Cells} \cup ({mem["buf_const"][c] : c \in Cells} \ {0})

\* C10: in exact arithmetic, every cell blend_kernel writes is the mean of the
\* four (self-substituted) neighbours of its input, and whenever the device
\* has finished what was launched every cell of the current grid lies between
\* the least and the greatest of the initial grid values and nonzero mask values.
C10_MaximumPrinciple ==
    /\ ~inexact
    /\ (ran # <<>> /\ LastRan.kernel = "blend_kernel") =>
          \A c \in Cells : 4 * mem[LastRan.a][c] = NeighbourSum(before.b, c)
    /\ stream = <<>> =>
          \A c \in Cells : /\ Min(SeedValues) <= mem[d.dev_inSrc][c]
                           /\ mem[d.dev_inSrc][c] <= Max(SeedValues)

\* a frame has run on a grid with a negative and a positive seed and a
\* positive source, and the current grid is no longer the initial one
C10_Witness ==
    /\ d.frames = MaxFrames
    /\ stream = <<>>
    /\ Min(SeedValues) < 0
    /\ Max(SeedValues) = MAX_TEMP
    /\ MIN_TEMP \in SeedValues
    /\ mem[d.dev_inSrc] # temp
    /\ \E c \in Cells : mem[d.dev_inSrc][c] \notin SeedValues

\* every kernel launched in the current frame, in launch order
Launched ==
    ran \o [n \in 1 .. Len(stream) |->
               [kernel |-> stream[n].kernel, a |-> stream[n].a, b |-> stream[n].b,
                sub |-> stream[n].sub]]

InFrame == pc \in {"launch_copy", "launch_blend", "swap", "launch_color", "memcpy", "sync"}

InLoop == pc \in {"launch_copy", "launch_blend", "swap"}

\* C3: the kernels of a frame are launched and run as clamp, diffusion, clamp,
\* diffusion, ...: the clamp of a substep works on the buffer its diffusion
\* reads, the diffusion writes the other buffer, the host swaps only after it
\* launched the diffusion, and the next substep reads what this one wrote; a
\* diffusion that may run finds every pinned cell of its input equal to the
\* mask; and no thread of a kernel runs while an earlier kernel is unfinished.
C3_SubstepOrder ==
    /\ \A k \in 1 .. Len(Launched) :
          /\ Launched[k].sub = (k - 1) \div 2
          /\ k <= 2 * Substeps /\ k % 2 = 1 =>
                /\ Launched[k].kernel = "copy_const_kernel"
                /\ Launched[k].b = "buf_const"
          /\ k <= 2 * Substeps /\ k % 2 = 0 =>
                /\ Launched[k].kernel = "blend_kernel"
                /\ Launched[k].b = Launched[k - 1].a
                /\ Launched[k].a # Launched[k].b
                /\ Launched[k].a \in {"buf_in", "buf_out"}
          /\ k <= 2 * Substeps /\ k % 2 = 1 /\ k > 1 =>
                Launched[k].a = Launched[k - 1].a
          /\ k > 2 * Substeps =>
                Launched[k].kernel = "float_to_color" /\ k = 2 * Substeps + 1
    /\ pc = "launch_copy" => Len(Launched) = 2 * i
    /\ pc = "launch_blend" => Len(Launched) = 2 * i + 1
    /\ pc = "swap" => Len(Launched) = 2 * i + 2 /\ d.dev_outSrc = Launched[2 * i + 2].a
    /\ \A n \in 1 .. Len(stream) :
          (Runnable(n) /\ stream[n].kernel = "blend_kernel") =>
              \A c \in Cells :
                  mem["buf_const"][c] # 0 => mem[stream[n].b][c] = mem["buf_const"][c]
    /\ \A n \in 2 .. Len(stream) : stream[n].done = {}

\* the diffusion of the second substep is running while the host is already
\* past the loop, on a grid whose pinned cell did not start at the mask value
C3_Witness ==
    /\ stream # <<>>
    /\ stream[1].kernel = "blend_kernel"
    /\ stream[1].sub = 1
    /\ stream[1].done # {}
    /\ pc = "memcpy"
    /\ \E c \in Cells : /\ mem["buf_const"][c] # 0
                        /\ temp[c] # mem["buf_const"][c]
                        /\ mem[stream[1].b][c] = mem["buf_const"][c]

\* C7: a call of anim_gpu runs Substeps clamps and diffusions, then converts
\* once, then transfers once: the converted grid is the one the last diffusion
\* wrote and dev_inSrc names after the last swap; nothing is transferred while
\* the loop runs or before the conversion has run; and the call returns only
\* with the converted frame in the host bitmap.
C7_FrameAdvance ==
    /\ xfers \in {0, 1}
    /\ Len(ran) <= 2 * Substeps + 1
    /\ InLoop => xfers = 0
    /\ Len(ran) = 2 * Substeps + 1 =>
          /\ LastRan.kernel = "float_to_color"
          /\ Cardinality({k \in 1 .. Len(ran) : ran[k].kernel = "blend_kernel"}) = Substeps
          /\ Cardinality({k \in 1 .. Len(ran) : ran[k].kernel = "copy_const_kernel"}) = Substeps
          /\ LastRan.b = ran[2 * Substeps].a
          /\ ran[2 * Substeps].kernel = "blend_kernel"
          /\ pc # "exited" => LastRan.b = d.dev_inSrc
          /\ pixels = float_to_color(mem[LastRan.b])
    /\ xfers = 1 =>
          /\ Len(ran) = 2 * Substeps + 1
          /\ stream = <<>>
          /\ bitmap = pixels
    /\ (pc \in {"idle", "exited"} /\ d.frames > 0) => xfers = 1

\* a frame has been delivered: the call returned with a picture that is not
\* blank
C7_Witness ==
    /\ pc = "idle"
    /\ d.frames = 1
    /\ xfers = 1
    /\ bitmap # NoPixels
    /\ \E c \in Cells : bitmap[c] > 0

\* C9: dev_inSrc and dev_outSrc always name the two grid buffers, one each,
\* and never the mask; once the device has caught up after a swap, the new
\* current buffer holds what the diffusion wrote and the new next buffer what
\* it read (labels exchanged, data in place); and in every launched diffusion
\* the written buffer is not the read one, each thread writes a cell of its
\* own that no thread reads, so that under every interleaving each written
\* cell holds the stencil of the input as it was when the kernel started.
C9_DoubleBuffer ==
    /\ {d.dev_inSrc, d.dev_outSrc} = {"buf_in", "buf_out"}
    /\ d.dev_inSrc # d.dev_outSrc
    /\ d.dev_constSrc = "buf_const"
    /\ (stream = <<>> /\ pc = "launch_copy" /\ i > 0) =>
          /\ d.dev_inSrc = LastRan.a
          /\ d.dev_outSrc = LastRan.b
          /\ mem[d.dev_inSrc] = blend_kernel(before.b)
          /\ mem[d.dev_outSrc] = before.b
    /\ \A n \in 1 .. Len(stream) :
          stream[n].kernel = "blend_kernel" =>
              /\ stream[n].a # stream[n].b
              /\ {stream[n].a, stream[n].b} = {"buf_in", "buf_out"}
              /\ {Offset(t) : t \in Threads} = Cells
              /\ \A t1, t2 \in Threads :
                    /\ t1 # t2 => Offset(t1) # Offset(t2)
                    /\ <<stream[n].a, Offset(t1)>> \notin
                           {<<stream[n].b, c>> : c \in BlendReads(t2)}
              /\ \A t \in stream[n].done :
                    mem[stream[n].a][Offset(t)] = BlendCell(before.b, t)
              /\ stream[n].done # {} => mem[stream[n].b] = before.b

\* a diffusion after a swap, half done: a thread that has run wrote a cell
\* whose index a thread still to run will read, and the two buffers differ there
C9_Witness ==
    /\ stream # <<>>
    /\ stream[1].kernel = "blend_kernel"
    /\ stream[1].sub = 1
    /\ stream[1].a = "buf_in"
    /\ \E t1 \in stream[1].done, t2 \in Threads \ stream[1].done :
          /\ Offset(t1) \in BlendReads(t2)
          /\ mem[stream[1].a][Offset(t1)] # mem[stream[1].b][Offset(t1)]

\* the cells of the rectangle with corners (x0, y0) and (x1, y1)
Rect(x0, y0, x1, y1) ==
    {c \in Cells : /\ x0 <= c % dim /\ c % dim <= x1
                   /\ y0 <= c \div dim /\ c \div dim <= y1}

Rects ==
    {Rect(r[1], r[2], r[3], r[4]) :
        r \in {q \in (0 .. (dim - 1)) \X (0 .. (dim - 1)) \X (0 .. (dim - 1)) \X (0 .. (dim - 1)) :
                  q[1] <= q[3] /\ q[2] <= q[4]}}

\* C5 as claimed: when main() calls the harness, the current grid is nonzero
\* exactly on one rectangle, which holds no nonzero cell of the mask.
C5_SeedAsClaimed ==
    pc = "idle" =>
        \E R \in Rects :
            /\ \A c \in Cells : (mem[d.dev_inSrc][c] # 0) <=> (c \in R)
            /\ \A c \in R : mem[d.dev_constSrc][c] = 0

\* C5 amended: when main() calls the harness, the current grid is MAX_TEMP on
\* one rectangle, which holds no nonzero cell of the mask, and equals the mask
\* at every other cell (zero only where the mask is zero).
C5_Seed ==
    pc = "idle" =>
        \E R \in Rects :
            /\ \A c \in Cells :
                  mem[d.dev_inSrc][c] = IF c \in R THEN MAX_TEMP ELSE mem[d.dev_constSrc][c]
            /\ \A c \in R : mem[d.dev_constSrc][c] = 0

\* main() has seeded: the mask has hot and cold cells, and the current grid
\* is hot at a cell the mask leaves free and keeps a cold cell of the mask
C5_Witness ==
    /\ pc = "idle"
    /\ \E c \in Cells : mem[d.dev_constSrc][c] = MAX_TEMP
    /\ \E c \in Cells : mem[d.dev_constSrc][c] = 0 /\ mem[d.dev_inSrc][c] = MAX_TEMP
    /\ \E c \in Cells : mem[d.dev_constSrc][c] = MIN_TEMP /\ mem[d.dev_inSrc][c] = MIN_TEMP

\* C6: once the cudaMalloc of a grid or of the mask has failed, anim_gpu is
\* never entered and no frame is produced.
C6_HaltOnAllocFailure ==
    (failed \cap {"dev_inSrc", "dev_outSrc", "dev_constSrc"} # {}) =>
        /\ ~InFrame
        /\ d.frames = 0

====
